---- MODULE Spec2Model ----
(***************************************************************************)
(* Game Art Metadata Assistant: the item collection of App, the handlers  *)
(* that mutate it, the metadata request client and the bulk tag merge.    *)
(*                                                                         *)
(* Text is a sequence of one-character strings, so that split, trim,      *)
(* lower-casing and the regular-expression replacements are computed      *)
(* character by character.  A nullable field is a sequence of length 0    *)
(* (null) or 1 (the value).                                                *)
(***************************************************************************)
EXTENDS Integers, Sequences, FiniteSets, TLC

VARIABLES
    imageFiles,       \* useState<ImageFile[]>: the item collection
    isProcessing,     \* useState(false): a generateAll run is active
    customTagsInput,  \* useState(''): the bulk tag text field
    genAllFiles,      \* imageFiles as captured by the running generateAll closure
    genAllPos,        \* index in genAllFiles of the item the run awaits, 0 = no run
    pending,          \* per id, the user-triggered analyses in flight
    objectUrls,       \* preview URLs created and not yet revoked
    nextId,           \* number of ids (and preview URLs) handed out so far
    clientResponse,   \* what the service answers to the analysis in flight (client check)
    cardInput,        \* the change event of a card input about to be handled (edit check)
    librariesLoaded,  \* typeof JSZip and typeof piexif are not 'undefined'
    isZipping,        \* useState(false): an export is active
    exportFiles,      \* filesToDownload of the running processAndDownloadAll
    exportPos,        \* index in exportFiles of the item in work, 0 = none
    exportPc,         \* where processAndDownloadAll is suspended
    zip,              \* entries of the JSZip instance of the running export
    exportErrors,     \* ids of the items whose failure console.error reported
    alerts,           \* messages shown by alert()
    downloaded        \* the archive handed to the browser by link.click(), if any

\* The state of the metadata request client check and of the export pipeline.
exportVars == <<librariesLoaded, isZipping, exportFiles, exportPos, exportPc, zip,
                exportErrors, alerts, downloaded>>

sessionVars == <<imageFiles, isProcessing, customTagsInput, genAllFiles, genAllPos,
                 pending, objectUrls, nextId>>

vars == <<sessionVars, clientResponse, cardInput, exportVars>>

----------------------------------------------------------------------------
\* Bounds of the model.

\* Ids handed out over one session.
MaxFiles == 3
\* User-triggered analyses in flight at the same time.
MaxInFlight == 1
\* Length of the text typed into the bulk tag field (tag merge check).
MaxInputLen == 4

Ids == 1..MaxFiles

----------------------------------------------------------------------------
\* types.ts

IDLE == "IDLE"
LOADING == "LOADING"
SUCCESS == "SUCCESS"
ERROR == "ERROR"

AppStatus == {IDLE, LOADING, SUCCESS, ERROR}

None == <<>>
Some(x) == <<x>>

ImageMetadata(filename, title, description, tags) ==
    [filename |-> filename, title |-> title, description |-> description, tags |-> tags]

ImageFile(id, previewUrl, metadata, status, error) ==
    [id |-> id, previewUrl |-> previewUrl, metadata |-> metadata,
     status |-> status, error |-> error]

----------------------------------------------------------------------------
\* Sequence helpers.

Range(s) == {s[i] : i \in 1..Len(s)}

\* All sequences over S of length at most n.
RECURSIVE SeqsUpTo(_, _)
SeqsUpTo(S, n) ==
    IF n = 0 THEN {<<>>}
    ELSE LET shorter == SeqsUpTo(S, n - 1)
         IN  shorter \cup {Append(s, c) : s \in {t \in shorter : Len(t) = n - 1}, c \in S}

----------------------------------------------------------------------------
\* String operations.

Whitespace == {" "}

\* String.prototype.split(',')
RECURSIVE SplitFrom(_, _, _)
SplitFrom(s, i, cur) ==
    IF i > Len(s) THEN <<cur>>
    ELSE IF s[i] = "," THEN <<cur>> \o SplitFrom(s, i + 1, <<>>)
    ELSE SplitFrom(s, i + 1, Append(cur, s[i]))

SplitComma(s) == SplitFrom(s, 1, <<>>)

RECURSIVE TrimStart(_)
TrimStart(s) ==
    IF s # <<>> /\ Head(s) \in Whitespace THEN TrimStart(Tail(s)) ELSE s

RECURSIVE TrimEnd(_)
TrimEnd(s) ==
    IF s # <<>> /\ s[Len(s)] \in Whitespace THEN TrimEnd(SubSeq(s, 1, Len(s) - 1)) ELSE s

\* String.prototype.trim
Trim(s) == TrimEnd(TrimStart(s))

\* .map(tag => tag.trim())
MapTrim(parts) == [i \in 1..Len(parts) |-> Trim(parts[i])]

\* .filter(Boolean): the empty string is the only falsy string.
RECURSIVE FilterBoolean(_)
FilterBoolean(parts) ==
    IF parts = <<>> THEN <<>>
    ELSE (IF Head(parts) # <<>> THEN <<Head(parts)>> ELSE <<>>) \o FilterBoolean(Tail(parts))

\* value.split(',').map(tag => tag.trim()).filter(Boolean)
ParseTags(s) == FilterBoolean(MapTrim(SplitComma(s)))

\* Array.from(new Set(xs)): the first occurrence of each element, in order.
RECURSIVE SetOrder(_, _)
SetOrder(xs, seen) ==
    IF xs = <<>> THEN <<>>
    ELSE IF Head(xs) \in seen THEN SetOrder(Tail(xs), seen)
    ELSE <<Head(xs)>> \o SetOrder(Tail(xs), seen \cup {Head(xs)})

ArrayFromSet(xs) == SetOrder(xs, {})

----------------------------------------------------------------------------
\* Metadata request client (analyzeImageAndSuggestMetadata).

\* String.prototype.toLowerCase on the letters of the model's alphabet.
ToLowerCase(s) ==
    [i \in 1..Len(s) |->
        CASE s[i] = "A" -> "a"
          [] s[i] = "B" -> "b"
          [] s[i] = "E" -> "e"
          [] OTHER -> s[i]]

\* The character class [a-z0-9-], over the model's alphabet.
KebabChars == {"a", "b", "c", "e", "x", "1", "-"}

\* The backtick character (the lexer admits none inside a string).
Backtick == "BACKTICK"

\* .replace(/<backtick>/g, '')
RECURSIVE StripBackticks(_)
StripBackticks(s) ==
    IF s = <<>> THEN <<>>
    ELSE (IF Head(s) = Backtick THEN <<>> ELSE <<Head(s)>>) \o StripBackticks(Tail(s))

\* .replace(/\s+/g, '-'): every maximal run of whitespace becomes one hyphen.
RECURSIVE HyphenateWhitespace(_)
HyphenateWhitespace(s) ==
    IF s = <<>> THEN <<>>
    ELSE IF Head(s) \in Whitespace
         THEN <<"-">> \o HyphenateWhitespace(TrimStart(s))
         ELSE <<Head(s)>> \o HyphenateWhitespace(Tail(s))

\* .replace(/[^a-z0-9-]/g, '')
RECURSIVE StripNonKebab(_)
StripNonKebab(s) ==
    IF s = <<>> THEN <<>>
    ELSE (IF Head(s) \in KebabChars THEN <<Head(s)>> ELSE <<>>) \o StripNonKebab(Tail(s))

RECURSIVE DropHyphens(_)
DropHyphens(s) ==
    IF s # <<>> /\ Head(s) = "-" THEN DropHyphens(Tail(s)) ELSE s

\* .replace(/--+/g, '-'): every run of two or more hyphens becomes one hyphen.
RECURSIVE CollapseHyphens(_)
CollapseHyphens(s) ==
    IF s = <<>> THEN <<>>
    ELSE IF Head(s) = "-"
         THEN <<"-">> \o CollapseHyphens(DropHyphens(s))
         ELSE <<Head(s)>> \o CollapseHyphens(Tail(s))

\* The chain with the hyphen runs collapsed before the other characters are removed.
NormalizeCollapseFirst(s) ==
    StripNonKebab(CollapseHyphens(HyphenateWhitespace(StripBackticks(ToLowerCase(s)))))

\* The chain without its last replacement.
NormalizeNoCollapse(s) ==
    StripNonKebab(HyphenateWhitespace(StripBackticks(ToLowerCase(s))))

\* The filename clean-up chain.
NormalizeFilename(s) ==
    CollapseHyphens(StripNonKebab(HyphenateWhitespace(StripBackticks(ToLowerCase(s)))))

ParseErrorMessage == "Could not parse the AI's response. Please try again."
AnalyzeErrorMessage == "Could not analyze the image. Please try again or use a different image."

\* A response of the inference service:
\*   [kind |-> "transport"]   generateContent rejects (network, service, timeout)
\*   [kind |-> "malformed"]   response.text is not JSON: JSON.parse throws SyntaxError
\*   [kind |-> "json", filename, title, description, tags]   a parsed object, each
\*       text field None (absent) or Some(text), tags None or Some(sequence).
TransportFailure == [kind |-> "transport"]
MalformedBody == [kind |-> "malformed"]
JsonBody(filename, title, description, tags) ==
    [kind |-> "json", filename |-> filename, title |-> title,
     description |-> description, tags |-> tags]

\* !x for a text field: undefined and the empty string are falsy.
Falsy(field) == field = None \/ field = Some(<<>>)

\* !metadata.filename || !metadata.title || !metadata.description
\*   || !Array.isArray(metadata.tags)
InvalidStructure(r) ==
    Falsy(r.filename) \/ Falsy(r.title) \/ Falsy(r.description) \/ r.tags = None

\* The outcome of one analysis: [ok |-> TRUE, metadata] when the promise
\* resolves, [ok |-> FALSE, message] when it rejects.
analyzeImageAndSuggestMetadata(r) ==
    IF r.kind = "transport" THEN [ok |-> FALSE, message |-> AnalyzeErrorMessage]
    ELSE IF r.kind = "malformed" THEN [ok |-> FALSE, message |-> ParseErrorMessage]
    ELSE IF InvalidStructure(r) THEN [ok |-> FALSE, message |-> AnalyzeErrorMessage]
    ELSE [ok |-> TRUE,
          metadata |-> ImageMetadata(NormalizeFilename(r.filename[1]), r.title[1],
                                     r.description[1], r.tags[1])]

\* The responses the service gives in the session model.
Responses ==
    { TransportFailure,
      MalformedBody,
      JsonBody(Some(<<"E", Backtick, " ", " ", "b">>), None, Some(<<"d">>), Some(<< <<"b">> >>)),
      JsonBody(Some(<<"E", Backtick, " ", " ", "b">>), Some(<<"t">>), Some(<<"d">>),
               Some(<< <<"b">>, <<"c">> >>)) }

----------------------------------------------------------------------------
\* App: derived values and helpers.

\* { ...f, ...updates }
Merge(f, updates) ==
    [k \in DOMAIN f |-> IF k \in DOMAIN updates THEN updates[k] ELSE f[k]]

\* Mutant of updateImageFile: an update for an id that is not in the list adds an
\* item with that id.
updateImageFileOrInsert(files, id, updates) ==
    IF \E i \in 1..Len(files) : files[i].id = id
    THEN [i \in 1..Len(files) |->
            IF files[i].id = id THEN Merge(files[i], updates) ELSE files[i]]
    ELSE Append(files, Merge(ImageFile(id, id, None, IDLE, None), updates))

\* setImageFiles(prev => prev.map(f => f.id === id ? { ...f, ...updates } : f))
updateImageFile(files, id, updates) ==
    [i \in 1..Len(files) |->
        IF files[i].id = id THEN Merge(files[i], updates) ELSE files[i]]

\* imageFiles.find(f => f.id === id) is defined
HasId(files, id) == \E i \in 1..Len(files) : files[i].id = id

FileOf(files, id) == files[CHOOSE i \in 1..Len(files) : files[i].id = id]

hasFiles == Len(imageFiles) > 0

hasUnprocessedFiles ==
    \E i \in 1..Len(imageFiles) : imageFiles[i].status \in {IDLE, ERROR}

hasSuccessfulFiles ==
    \E i \in 1..Len(imageFiles) : imageFiles[i].status = SUCCESS

\* The synchronous head of handleGenerateMetadataForOne, up to the await.
BeginAnalysis(files, id) ==
    updateImageFile(files, id, [status |-> LOADING, error |-> None])

\* The continuation of handleGenerateMetadataForOne after the await: the try
\* branch when the analysis resolved, the catch branch when it rejected.
EndAnalysis(files, id, result) ==
    IF result.ok
    THEN updateImageFile(files, id, [status |-> SUCCESS, metadata |-> Some(result.metadata)])
    ELSE updateImageFile(files, id, [status |-> ERROR, error |-> Some(result.message)])

\* Mutant of NextEligible: the loop taking the last item that is IDLE or ERROR.
NextEligibleFromEnd(files, pos) ==
    IF \E j \in (pos + 1)..Len(files) : files[j].status \in {IDLE, ERROR}
    THEN CHOOSE j \in (pos + 1)..Len(files) :
            /\ files[j].status \in {IDLE, ERROR}
            /\ \A k \in (j + 1)..Len(files) : files[k].status \notin {IDLE, ERROR}
    ELSE 0

\* Mutant of NextEligible: the loop without its status test.
NextEligibleAnyStatus(files, pos) == IF pos < Len(files) THEN pos + 1 ELSE 0

\* The loop of handleGenerateAllMetadata: the next index after pos whose captured
\* status is IDLE or ERROR, 0 when the loop is over.
NextEligible(files, pos) ==
    IF \E j \in (pos + 1)..Len(files) : files[j].status \in {IDLE, ERROR}
    THEN CHOOSE j \in (pos + 1)..Len(files) :
            /\ files[j].status \in {IDLE, ERROR}
            /\ \A k \in (pos + 1)..(j - 1) : files[k].status \notin {IDLE, ERROR}
    ELSE 0

RECURSIVE SumPending(_, _)
SumPending(p, ids) ==
    IF ids = {} THEN 0
    ELSE LET id == CHOOSE x \in ids : TRUE IN p[id] + SumPending(p, ids \ {id})

\* Analyses started by a card's Regenerate / Try Again and not yet settled.
UserInFlight == SumPending(pending, DOMAIN pending)

\* Calls of analyzeImageAndSuggestMetadata that have not settled.
InFlight == UserInFlight + (IF genAllPos # 0 THEN 1 ELSE 0)

----------------------------------------------------------------------------
\* Inputs of the session model.

\* file.type of the files of one selection (picker or drop).
FileSelections ==
    { <<"image/png">>,
      <<"image/png", "image/jpeg">>,
      <<"text/plain", "image/png">>,
      <<"text/plain">> }

\* file.type.startsWith('image/')
IsImageType(type) == type \in {"image/png", "image/jpeg"}

RECURSIVE FilterImages(_)
FilterImages(types) ==
    IF types = <<>> THEN <<>>
    ELSE (IF IsImageType(Head(types)) THEN <<Head(types)>> ELSE <<>>)
         \o FilterImages(Tail(types))

\* e.target.name and e.target.value of a card's text inputs.  The session model
\* edits the title; handleInputChange itself takes any of the three names.
EditNames == {"title"}
EditValues == {<<"x">>}

\* Text typed into a card's tags input or into the bulk tag field: one that
\* parses to a tag twice and one that parses to no tag.
TagTexts == {<<"b", ",", "b">>, <<",">>}

----------------------------------------------------------------------------
\* Initial state: App as constructed.

\* No processAndDownloadAll is running.
ExportIdle ==
    /\ isZipping = FALSE
    /\ exportFiles = <<>>
    /\ exportPos = 0
    /\ exportPc = "idle"
    /\ zip = {}
    /\ exportErrors = {}

Init ==
    /\ imageFiles = <<>>
    /\ isProcessing = FALSE
    /\ customTagsInput = <<>>
    /\ genAllFiles = <<>>
    /\ genAllPos = 0
    /\ pending = [id \in Ids |-> 0]
    /\ objectUrls = {}
    /\ nextId = 0
    /\ clientResponse = TransportFailure
    /\ cardInput = None
    /\ ExportIdle
    /\ librariesLoaded = TRUE
    /\ alerts = {}
    /\ downloaded = None

----------------------------------------------------------------------------
\* Handlers.

\* Mutant of handleFileSelect: the selection taken without the filter on file.type.
handleFileSelectEveryFile(selectedFiles) ==
    LET images == selectedFiles
        newFiles == [k \in 1..Len(images) |->
                        ImageFile(nextId + k, nextId + k, None, IDLE, None)]
    IN  /\ ~hasFiles
        /\ nextId + Len(images) <= MaxFiles
        /\ imageFiles' = imageFiles \o newFiles
        /\ objectUrls' = objectUrls \cup {nextId + k : k \in 1..Len(images)}
        /\ nextId' = nextId + Len(images)
        /\ UNCHANGED <<isProcessing, customTagsInput, genAllFiles, genAllPos, pending>>
        /\ UNCHANGED <<clientResponse, cardInput, exportVars>>

\* Mutant of handleFileSelect: one id drawn for the whole selection.
handleFileSelectSharedId(selectedFiles) ==
    LET images == FilterImages(selectedFiles)
        newFiles == [k \in 1..Len(images) |->
                        ImageFile(nextId + 1, nextId + k, None, IDLE, None)]
    IN  /\ ~hasFiles
        /\ nextId + Len(images) <= MaxFiles
        /\ imageFiles' = imageFiles \o newFiles
        /\ objectUrls' = objectUrls \cup {nextId + k : k \in 1..Len(images)}
        /\ nextId' = nextId + Len(images)
        /\ UNCHANGED <<isProcessing, customTagsInput, genAllFiles, genAllPos, pending>>
        /\ UNCHANGED <<clientResponse, cardInput, exportVars>>

\* Upload through ImageUploader, which is rendered only while there is no item.
handleFileSelect(selectedFiles) ==
    LET images == FilterImages(selectedFiles)
        newFiles == [k \in 1..Len(images) |->
                        ImageFile(nextId + k, nextId + k, None, IDLE, None)]
    IN  /\ ~hasFiles
        /\ nextId + Len(images) <= MaxFiles
        /\ imageFiles' = imageFiles \o newFiles
        /\ objectUrls' = objectUrls \cup {nextId + k : k \in 1..Len(images)}
        /\ nextId' = nextId + Len(images)
        /\ UNCHANGED <<isProcessing, customTagsInput, genAllFiles, genAllPos, pending>>
        /\ UNCHANGED <<clientResponse, cardInput, exportVars>>

\* A card's Regenerate (SUCCESS) or Try Again (ERROR) button:
\* handleGenerateMetadataForOne up to its await.
Regenerate(id) ==
    /\ HasId(imageFiles, id)
    /\ LET f == FileOf(imageFiles, id)
       IN  \/ f.status = SUCCESS /\ f.metadata # None
           \/ f.status = ERROR
    /\ UserInFlight < MaxInFlight
    /\ imageFiles' = BeginAnalysis(imageFiles, id)
    /\ pending' = [pending EXCEPT ![id] = @ + 1]
    /\ UNCHANGED <<isProcessing, customTagsInput, genAllFiles, genAllPos, objectUrls, nextId>>
    /\ UNCHANGED <<clientResponse, cardInput, exportVars>>

\* A user-triggered analysis settles: handleGenerateMetadataForOne after its await.
RegenerateSettles(id, response) ==
    /\ pending[id] > 0
    /\ imageFiles' = EndAnalysis(imageFiles, id, analyzeImageAndSuggestMetadata(response))
    /\ pending' = [pending EXCEPT ![id] = @ - 1]
    /\ UNCHANGED <<isProcessing, customTagsInput, genAllFiles, genAllPos, objectUrls, nextId>>
    /\ UNCHANGED <<clientResponse, cardInput, exportVars>>

\* What the generateAll closure reads of the imageFiles it captured: each item's
\* id and status.
Captured(files) ==
    [i \in 1..Len(files) |-> [id |-> files[i].id, status |-> files[i].status]]

\* Generate All: handleGenerateAllMetadata up to its first await.  The closure
\* keeps the imageFiles of the render it was created in.
handleGenerateAllMetadata ==
    /\ ~isProcessing
    /\ hasUnprocessedFiles
    /\ LET first == NextEligible(imageFiles, 0)
       IN  /\ isProcessing' = TRUE
           /\ genAllFiles' = Captured(imageFiles)
           /\ genAllPos' = first
           /\ imageFiles' = BeginAnalysis(imageFiles, imageFiles[first].id)
    /\ UNCHANGED <<customTagsInput, pending, objectUrls, nextId>>
    /\ UNCHANGED <<clientResponse, cardInput, exportVars>>

\* Mutant of GenerateAllSettles: a rejected analysis ends the loop.
GenerateAllSettlesStopsOnFailure(response) ==
    /\ genAllPos # 0
    /\ LET result == analyzeImageAndSuggestMetadata(response)
           settled == EndAnalysis(imageFiles, genAllFiles[genAllPos].id, result)
           next == IF result.ok THEN NextEligible(genAllFiles, genAllPos) ELSE 0
       IN  IF next = 0
           THEN /\ imageFiles' = settled
                /\ isProcessing' = FALSE
                /\ genAllFiles' = <<>>
                /\ genAllPos' = 0
           ELSE /\ imageFiles' = BeginAnalysis(settled, genAllFiles[next].id)
                /\ genAllPos' = next
                /\ UNCHANGED <<isProcessing, genAllFiles>>
    /\ UNCHANGED <<customTagsInput, pending, objectUrls, nextId>>
    /\ UNCHANGED <<clientResponse, cardInput, exportVars>>

\* The analysis awaited by the run settles: the item is updated and, in the same
\* turn of the event loop, the loop goes on to the next captured item that was
\* IDLE or ERROR, or ends.
GenerateAllSettles(response) ==
    /\ genAllPos # 0
    /\ LET settled == EndAnalysis(imageFiles, genAllFiles[genAllPos].id,
                                  analyzeImageAndSuggestMetadata(response))
           next == NextEligible(genAllFiles, genAllPos)
       IN  IF next = 0
           THEN /\ imageFiles' = settled
                /\ isProcessing' = FALSE
                /\ genAllFiles' = <<>>
                /\ genAllPos' = 0
           ELSE /\ imageFiles' = BeginAnalysis(settled, genAllFiles[next].id)
                /\ genAllPos' = next
                /\ UNCHANGED <<isProcessing, genAllFiles>>
    /\ UNCHANGED <<customTagsInput, pending, objectUrls, nextId>>
    /\ UNCHANGED <<clientResponse, cardInput, exportVars>>

\* Clear All.
handleReset ==
    /\ hasFiles
    /\ objectUrls' = objectUrls \ {imageFiles[i].previewUrl : i \in 1..Len(imageFiles)}
    /\ imageFiles' = <<>>
    /\ UNCHANGED <<isProcessing, customTagsInput, genAllFiles, genAllPos, pending, nextId>>
    /\ UNCHANGED <<clientResponse, cardInput, exportVars>>

\* prev.filter(f => f.id !== id)
RECURSIVE FilterOutId(_, _)
FilterOutId(files, id) ==
    IF files = <<>> THEN <<>>
    ELSE (IF Head(files).id # id THEN <<Head(files)>> ELSE <<>>)
         \o FilterOutId(Tail(files), id)

\* The delete button without the release of the preview URL.
handleDeleteFileKeepsUrl(id) ==
    /\ HasId(imageFiles, id)
    /\ imageFiles' = FilterOutId(imageFiles, id)
    /\ UNCHANGED <<isProcessing, customTagsInput, genAllFiles, genAllPos, pending, nextId,
                   objectUrls>>
    /\ UNCHANGED <<clientResponse, cardInput, exportVars>>

\* A card's delete button.
handleDeleteFile(id) ==
    /\ HasId(imageFiles, id)
    /\ objectUrls' = objectUrls \ {FileOf(imageFiles, id).previewUrl}
    /\ imageFiles' = FilterOutId(imageFiles, id)
    /\ UNCHANGED <<isProcessing, customTagsInput, genAllFiles, genAllPos, pending, nextId>>
    /\ UNCHANGED <<clientResponse, cardInput, exportVars>>

\* The update without the comparison of ids.
handleMetadataChangeEveryItem(files, id, newMetadata) ==
    [i \in 1..Len(files) |-> Merge(files[i], [metadata |-> Some(newMetadata)])]

\* updateImageFile(id, { metadata: newMetadata })
handleMetadataChange(files, id, newMetadata) ==
    updateImageFile(files, id, [metadata |-> Some(newMetadata)])

\* A card's filename, title or description input changes.  The inputs are
\* rendered only for a SUCCESS item with metadata.
handleInputChange(id, name, value) ==
    /\ HasId(imageFiles, id)
    /\ LET f == FileOf(imageFiles, id)
       IN  /\ f.status = SUCCESS
           /\ f.metadata # None
           /\ imageFiles' = handleMetadataChange(imageFiles, id,
                                [f.metadata[1] EXCEPT ![name] = value])
    /\ UNCHANGED <<isProcessing, customTagsInput, genAllFiles, genAllPos, pending,
                   objectUrls, nextId>>
    /\ UNCHANGED <<clientResponse, cardInput, exportVars>>

\* A card's tags input changes.
handleTagsChange(id, value) ==
    /\ HasId(imageFiles, id)
    /\ LET f == FileOf(imageFiles, id)
       IN  /\ f.status = SUCCESS
           /\ f.metadata # None
           /\ imageFiles' = handleMetadataChange(imageFiles, id,
                                [f.metadata[1] EXCEPT !.tags = ParseTags(value)])
    /\ UNCHANGED <<isProcessing, customTagsInput, genAllFiles, genAllPos, pending,
                   objectUrls, nextId>>
    /\ UNCHANGED <<clientResponse, cardInput, exportVars>>

\* The bulk tag field changes; it is rendered only while some item is SUCCESS.
setCustomTagsInput(value) ==
    /\ hasSuccessfulFiles
    /\ customTagsInput' = value
    /\ UNCHANGED <<imageFiles, isProcessing, genAllFiles, genAllPos, pending,
                   objectUrls, nextId>>
    /\ UNCHANGED <<clientResponse, cardInput, exportVars>>

\* Mutant of ApplyTagsTo: the new tags merged in front of the existing ones.
ApplyTagsNewFirst(files, newTags) ==
    [i \in 1..Len(files) |->
        IF files[i].status = SUCCESS /\ files[i].metadata # None
        THEN [files[i] EXCEPT !.metadata =
                 Some([files[i].metadata[1] EXCEPT !.tags = ArrayFromSet(newTags \o @)])]
        ELSE files[i]]

\* Mutant of ApplyTagsTo: the merge without the de-duplication.
ApplyTagsKeepDuplicates(files, newTags) ==
    [i \in 1..Len(files) |->
        IF files[i].status = SUCCESS /\ files[i].metadata # None
        THEN [files[i] EXCEPT !.metadata =
                 Some([files[i].metadata[1] EXCEPT !.tags = @ \o newTags])]
        ELSE files[i]]

\* Mutant of ApplyTagsTo: the merge applied to every item that has metadata.
ApplyTagsAnyStatus(files, newTags) ==
    [i \in 1..Len(files) |->
        IF files[i].metadata # None
        THEN [files[i] EXCEPT !.metadata =
                 Some([files[i].metadata[1] EXCEPT !.tags = ArrayFromSet(@ \o newTags)])]
        ELSE files[i]]

\* The updater handed to setImageFiles by handleApplyCustomTags.
ApplyTagsTo(files, newTags) ==
    [i \in 1..Len(files) |->
        IF files[i].status = SUCCESS /\ files[i].metadata # None
        THEN [files[i] EXCEPT !.metadata =
                 Some([files[i].metadata[1] EXCEPT !.tags = ArrayFromSet(@ \o newTags)])]
        ELSE files[i]]

\* imageFiles after handleApplyCustomTags has run with the field holding input:
\* it returns early on a blank field and on a field that parses to no tag.
AppliedCustomTags(files, input) ==
    IF Trim(input) = <<>> THEN files
    ELSE LET newTags == ParseTags(input)
         IN  IF newTags = <<>> THEN files ELSE ApplyTagsTo(files, newTags)

\* Apply Tags, enabled while the trimmed field is not empty.  The field is
\* cleared when the tags were applied.
handleApplyCustomTags ==
    /\ hasSuccessfulFiles
    /\ Trim(customTagsInput) # <<>>
    /\ imageFiles' = AppliedCustomTags(imageFiles, customTagsInput)
    /\ customTagsInput' = IF ParseTags(customTagsInput) = <<>> THEN customTagsInput ELSE <<>>
    /\ UNCHANGED <<isProcessing, genAllFiles, genAllPos, pending, objectUrls, nextId>>
    /\ UNCHANGED <<clientResponse, cardInput, exportVars>>

----------------------------------------------------------------------------
\* The session: every handler the rendered page offers, and every settlement.

Next ==
    \/ \E selectedFiles \in FileSelections : handleFileSelect(selectedFiles)
    \/ \E id \in Ids : Regenerate(id)
    \/ \E id \in Ids, response \in Responses : RegenerateSettles(id, response)
    \/ handleGenerateAllMetadata
    \/ \E response \in Responses : GenerateAllSettles(response)
    \/ handleReset
    \/ \E id \in Ids : handleDeleteFile(id)
    \/ \E id \in Ids, name \in EditNames, value \in EditValues :
          handleInputChange(id, name, value)
    \/ \E id \in Ids, value \in TagTexts : handleTagsChange(id, value)
    \/ \E value \in TagTexts : setCustomTagsInput(value)
    \/ handleApplyCustomTags

Spec == Init /\ [][Next]_vars

\* The session in which every call of analyzeImageAndSuggestMetadata settles:
\* the promise awaited by the run and the promises of the cards.
AnalysesSettle ==
    /\ WF_vars(\E response \in Responses : GenerateAllSettles(response))
    /\ \A id \in Ids : WF_vars(\E response \in Responses : RegenerateSettles(id, response))

SpecLive == Spec /\ AnalysesSettle

----------------------------------------------------------------------------
\* Bulk tag merge on its own: the items and the typed text are drawn from
\* bounded sets and Apply Tags is pressed.

TagChars == {"a", "b", ",", " "}

\* Tag lists an item can carry: as returned by an analysis, or as left by a card's
\* tags input, which keeps duplicates ("b,b") and accepts the empty list.
TagLists == { <<>>, << <<"c">> >>, << <<"b">>, <<"c">> >>, << <<"b">>, <<"b">> >> }

SomeMetadata(tags) == Some(ImageMetadata(<<"e", "-", "b">>, <<"t">>, <<"d">>, tags))

\* The shapes an item takes in the session: fresh; in analysis for the first time
\* or again; analysed; analysed while an older failure's message was left behind;
\* failed for the first time or after an earlier success.
ItemShapes(id) ==
    {ImageFile(id, id, None, IDLE, None),
     ImageFile(id, id, None, LOADING, None),
     ImageFile(id, id, None, ERROR, Some(AnalyzeErrorMessage))}
    \cup {ImageFile(id, id, SomeMetadata(tags), LOADING, None) : tags \in TagLists}
    \cup {ImageFile(id, id, SomeMetadata(tags), SUCCESS, None) : tags \in TagLists}
    \cup {ImageFile(id, id, SomeMetadata(tags), SUCCESS, Some(ParseErrorMessage)) :
             tags \in TagLists}
    \cup {ImageFile(id, id, SomeMetadata(tags), ERROR, Some(AnalyzeErrorMessage)) :
             tags \in TagLists}

InitTags ==
    /\ imageFiles \in {<<f1, f2>> : f1 \in ItemShapes(1), f2 \in ItemShapes(2)}
    /\ isProcessing = FALSE
    /\ customTagsInput \in SeqsUpTo(TagChars, MaxInputLen)
    /\ genAllFiles = <<>>
    /\ genAllPos = 0
    /\ pending = [id \in Ids |->
                    IF \E i \in 1..Len(imageFiles) :
                          imageFiles[i].id = id /\ imageFiles[i].status = LOADING
                    THEN 1 ELSE 0]
    /\ objectUrls = {1, 2}
    /\ nextId = 2
    /\ clientResponse = TransportFailure
    /\ cardInput = None
    /\ ExportIdle
    /\ librariesLoaded = TRUE
    /\ alerts = {}
    /\ downloaded = None

NextTags == handleApplyCustomTags

SpecTags == InitTags /\ [][NextTags]_vars

----------------------------------------------------------------------------
\* The metadata request client on its own: one analysis is in flight (Try Again
\* on an item in ERROR) and the service holds one of ClientResponses for it.

MaxNameLen == 4

\* Characters of a filename the service may return: lower and upper case letters,
\* a digit, a hyphen, whitespace, a backtick and a character outside [a-z0-9-].
ClientChars == {"a", "b", "A", "1", "-", " ", Backtick, "_"}

\* A filename with every kind of character, longer than MaxNameLen.
LongName == <<Backtick, "A", "b", " ", " ", "A", "-", "-", "_", "b", Backtick>>

\* An element of a JSON array that is a number, not a string: no character is
\* called "1.5", so no text equals it.
NumberElement == <<"1.5">>

\* A text field of a parsed response: absent, empty or filled.
ClientTexts == {None, Some(<<>>), Some(<<"t">>)}

\* The tags of a parsed response: no array, or an array of strings and numbers.
ClientTags ==
    {None, Some(<<>>), Some(<< <<"b">> >>), Some(<< <<"b">>, NumberElement >>)}

ClientResponses ==
    {TransportFailure, MalformedBody}
    \cup {JsonBody(Some(name), Some(<<"t">>), Some(<<"d">>), Some(<< <<"b">> >>)) :
             name \in SeqsUpTo(ClientChars, MaxNameLen)}
    \cup {JsonBody(filename, title, description, tags) :
             filename \in {None, Some(<<>>), Some(LongName)},
             title \in ClientTexts, description \in ClientTexts, tags \in ClientTags}

InitClient ==
    /\ imageFiles = <<ImageFile(1, 1, None, LOADING, None)>>
    /\ isProcessing = FALSE
    /\ customTagsInput = <<>>
    /\ genAllFiles = <<>>
    /\ genAllPos = 0
    /\ pending = [id \in Ids |-> IF id = 1 THEN 1 ELSE 0]
    /\ objectUrls = {1}
    /\ nextId = 1
    /\ clientResponse \in ClientResponses
    /\ cardInput = None
    /\ ExportIdle
    /\ librariesLoaded = TRUE
    /\ alerts = {}
    /\ downloaded = None

NextClient == RegenerateSettles(1, clientResponse)

SpecClient == InitClient /\ [][NextClient]_vars

----------------------------------------------------------------------------
\* The card inputs on their own: two items in any state a card can show, and
\* one change event of a card input.

AllEditNames == {"filename", "title", "description"}

\* An item with metadata in each status, with and without a left-over error,
\* and an item without metadata.
EditShapes(id) ==
    { ImageFile(id, id, None, IDLE, None),
      ImageFile(id, id, SomeMetadata(<< <<"b">>, <<"c">> >>), LOADING, None),
      ImageFile(id, id, SomeMetadata(<< <<"b">>, <<"c">> >>), SUCCESS, None),
      ImageFile(id, id, SomeMetadata(<< <<"b">>, <<"c">> >>), SUCCESS,
                Some(ParseErrorMessage)),
      ImageFile(id, id, SomeMetadata(<< <<"b">>, <<"c">> >>), ERROR,
                Some(AnalyzeErrorMessage)) }

\* e.target.name and e.target.value of the change events, and the card they
\* come from.
CardInputs ==
    {[id |-> id, name |-> name, value |-> value] :
        id \in {1, 2}, name \in AllEditNames \cup {"tags"},
        value \in SeqsUpTo(TagChars, MaxInputLen)}

InitEdit ==
    /\ imageFiles \in {<<f1, f2>> : f1 \in EditShapes(1), f2 \in EditShapes(2)}
    /\ isProcessing = FALSE
    /\ customTagsInput = <<>>
    /\ genAllFiles = <<>>
    /\ genAllPos = 0
    /\ pending = [id \in Ids |->
                    IF \E i \in 1..Len(imageFiles) :
                          imageFiles[i].id = id /\ imageFiles[i].status = LOADING
                    THEN 1 ELSE 0]
    /\ objectUrls = {1, 2}
    /\ nextId = 2
    /\ clientResponse = TransportFailure
    /\ cardInput \in {Some(input) : input \in CardInputs}
    /\ ExportIdle
    /\ librariesLoaded = TRUE
    /\ alerts = {}
    /\ downloaded = None

\* onChange of the card's inputs: the tags input has handleTagsChange, the
\* other three have handleInputChange.
NextEdit ==
    \/ /\ cardInput[1].name = "tags"
       /\ handleTagsChange(cardInput[1].id, cardInput[1].value)
    \/ /\ cardInput[1].name # "tags"
       /\ handleInputChange(cardInput[1].id, cardInput[1].name, cardInput[1].value)

SpecEdit == InitEdit /\ [][NextEdit]_vars

----------------------------------------------------------------------------
\* Export: processAndDownloadAll, one action per stretch between two awaits.

LibraryAlert == "A required library (JSZip or Piexif) failed to load. Cannot download files."
ZipAlert == "An error occurred while creating the zip file."

\* f.status === AppStatus.SUCCESS && f.metadata
IsDownloadable(f) == f.status = SUCCESS /\ f.metadata # None

\* imageFiles.filter(f => f.status === AppStatus.SUCCESS && f.metadata)
FilesToDownload(files) == SelectSeq(files, IsDownloadable)

\* What the loop reads of each captured item: its preview URL and the filename
\* of its metadata object as it was when the export was requested.
ExportCaptured(files) ==
    [i \in 1..Len(files) |->
        [id |-> files[i].id, previewUrl |-> files[i].previewUrl,
         filename |-> files[i].metadata[1].filename]]

\* The entry name: metadata.filename followed by .jpg
JpgName(filename) == filename \o <<".", "j", "p", "g">>

\* zip.file(name, blob): an entry of that name is replaced.
ZipFile(entries, name, id) ==
    {entry \in entries : entry.name # name} \cup {[name |-> name, id |-> id]}

\* Where the function is suspended once it turns to item k of files: at the
\* image load, which cannot succeed when the preview URL is already revoked as
\* img.src is assigned, or, after the last item, at zip.generateAsync.
PcAt(files, k) ==
    IF k > Len(files) THEN "finalize"
    ELSE IF files[k].previewUrl \in objectUrls THEN "decode"
    ELSE "decodeRevoked"

PosAt(files, k) == IF k > Len(files) THEN 0 ELSE k

\* The export with the flag raised before the libraries are looked for.
processAndDownloadAllFlagFirst ==
    /\ hasFiles
    /\ ~isZipping
    /\ hasSuccessfulFiles
    /\ IF ~librariesLoaded
       THEN /\ alerts' = alerts \cup {LibraryAlert}
            /\ isZipping' = TRUE
            /\ UNCHANGED <<exportFiles, exportPos, exportPc, zip, exportErrors>>
       ELSE LET files == ExportCaptured(FilesToDownload(imageFiles))
            IN  /\ isZipping' = TRUE
                /\ zip' = {}
                /\ exportErrors' = {}
                /\ exportFiles' = files
                /\ exportPos' = PosAt(files, 1)
                /\ exportPc' = PcAt(files, 1)
                /\ UNCHANGED alerts
    /\ UNCHANGED <<sessionVars, clientResponse, cardInput, librariesLoaded, downloaded>>

\* Download All (.zip): processAndDownloadAll up to its first await.  The
\* callback is re-created with every imageFiles, so it filters the current items.
\* exportErrors holds the console.error reports of the run that is starting.
processAndDownloadAll ==
    /\ hasFiles
    /\ ~isZipping
    /\ hasSuccessfulFiles
    /\ IF ~librariesLoaded
       THEN /\ alerts' = alerts \cup {LibraryAlert}
            /\ UNCHANGED <<isZipping, exportFiles, exportPos, exportPc, zip, exportErrors>>
       ELSE LET files == ExportCaptured(FilesToDownload(imageFiles))
            IN  /\ isZipping' = TRUE
                /\ zip' = {}
                /\ exportErrors' = {}
                /\ exportFiles' = files
                /\ exportPos' = PosAt(files, 1)
                /\ exportPc' = PcAt(files, 1)
                /\ UNCHANGED alerts
    /\ UNCHANGED <<sessionVars, clientResponse, cardInput, librariesLoaded, downloaded>>

\* The image load and canvas re-encoding of the item in work settles:
\*   "failed"       img.onerror, or getContext('2d') gives null: the promise
\*                  rejects outside every try, so processAndDownloadAll ends there
\*   "loaded"       the data URL is there, piexif.dump and piexif.insert return
\*                  and fetch is awaited
\*   "embedThrows"  the data URL is there and piexif throws: caught and reported,
\*                  the loop turns to the next item
ExportDecodeSettles(outcome) ==
    /\ exportPc \in {"decode", "decodeRevoked"}
    /\ outcome # "failed" => exportPc = "decode"
    /\ CASE outcome = "failed" ->
              /\ exportPc' = "aborted"
              /\ UNCHANGED <<exportPos, exportErrors>>
         [] outcome = "loaded" ->
              /\ exportPc' = "embed"
              /\ UNCHANGED <<exportPos, exportErrors>>
         [] outcome = "embedThrows" ->
              /\ exportErrors' = exportErrors \cup {exportFiles[exportPos].id}
              /\ exportPos' = PosAt(exportFiles, exportPos + 1)
              /\ exportPc' = PcAt(exportFiles, exportPos + 1)
    /\ UNCHANGED <<sessionVars, clientResponse, cardInput, librariesLoaded, isZipping, exportFiles,
                   zip, alerts, downloaded>>

\* fetch(newImageDataUrl) and response.blob() settle: "added" puts the entry into
\* the archive, "failed" is caught and reported; the loop turns to the next item.
ExportEmbedSettles(outcome) ==
    /\ exportPc = "embed"
    /\ IF outcome = "added"
       THEN /\ zip' = ZipFile(zip, JpgName(exportFiles[exportPos].filename),
                              exportFiles[exportPos].id)
            /\ UNCHANGED exportErrors
       ELSE /\ exportErrors' = exportErrors \cup {exportFiles[exportPos].id}
            /\ UNCHANGED zip
    /\ exportPos' = PosAt(exportFiles, exportPos + 1)
    /\ exportPc' = PcAt(exportFiles, exportPos + 1)
    /\ UNCHANGED <<sessionVars, clientResponse, cardInput, librariesLoaded, isZipping, exportFiles,
                   alerts, downloaded>>

\* The finalization without its finally block.
ExportFinalizeSettlesNoFinally(outcome) ==
    /\ exportPc = "finalize"
    /\ IF outcome = "generated"
       THEN /\ downloaded' = Some(zip)
            /\ isZipping' = FALSE
            /\ UNCHANGED alerts
       ELSE /\ alerts' = alerts \cup {ZipAlert}
            /\ UNCHANGED <<downloaded, isZipping>>
    /\ exportFiles' = <<>>
    /\ exportPos' = 0
    /\ exportPc' = "idle"
    /\ zip' = {}
    /\ exportErrors' = {}
    /\ UNCHANGED <<sessionVars, clientResponse, cardInput, librariesLoaded>>

\* zip.generateAsync settles: "generated" hands the archive to the browser
\* through link.click(), "failed" is caught and alerted; finally the flag falls
\* and the function returns.
ExportFinalizeSettles(outcome) ==
    /\ exportPc = "finalize"
    /\ IF outcome = "generated"
       THEN /\ downloaded' = Some(zip)
            /\ UNCHANGED alerts
       ELSE /\ alerts' = alerts \cup {ZipAlert}
            /\ UNCHANGED downloaded
    /\ isZipping' = FALSE
    /\ exportFiles' = <<>>
    /\ exportPos' = 0
    /\ exportPc' = "idle"
    /\ zip' = {}
    /\ exportErrors' = {}
    /\ UNCHANGED <<sessionVars, clientResponse, cardInput, librariesLoaded>>

\* The filenames of the items of the export model.
ExportNames == {<<"a">>}

\* An item of the export model: analysed with one of ExportNames, or failed.
ExportShapes(id) ==
    {ImageFile(id, id, Some(ImageMetadata(name, <<"t">>, <<"d">>, <<>>)), SUCCESS, None) :
        name \in ExportNames}
    \cup {ImageFile(id, id, None, ERROR, Some(AnalyzeErrorMessage))}

InitExport ==
    /\ imageFiles \in {<<f1, f2>> : f1 \in ExportShapes(1), f2 \in ExportShapes(2)}
    /\ isProcessing = FALSE
    /\ customTagsInput = <<>>
    /\ genAllFiles = <<>>
    /\ genAllPos = 0
    /\ pending = [id \in Ids |-> 0]
    /\ objectUrls = {1, 2}
    /\ nextId = 2
    /\ clientResponse = TransportFailure
    /\ cardInput = None
    /\ ExportIdle
    /\ librariesLoaded \in BOOLEAN
    /\ alerts = {}
    /\ downloaded = None

\* What the user types into the filename input of a card in the export model.
ExportEditValues == {<<"a">>, <<"B", " ">>}

\* The export and what the user does to the items meanwhile.
NextExport ==
    \/ processAndDownloadAll
    \/ \E outcome \in {"failed", "loaded", "embedThrows"} : ExportDecodeSettles(outcome)
    \/ \E outcome \in {"added", "failed"} : ExportEmbedSettles(outcome)
    \/ \E outcome \in {"generated", "failed"} : ExportFinalizeSettles(outcome)
    \/ \E id \in Ids : handleDeleteFile(id)
    \/ \E id \in Ids, value \in ExportEditValues : handleInputChange(id, "filename", value)
    \/ \E id \in Ids : Regenerate(id)
    \/ \E id \in Ids : RegenerateSettles(id, TransportFailure)

SpecExport == InitExport /\ [][NextExport]_vars

\* The export in which every promise it awaits settles: the image load, the
\* fetch of the data URL and zip.generateAsync.
ExportAwaitsSettle ==
    /\ WF_vars(\E outcome \in {"failed", "loaded", "embedThrows"} :
                  ExportDecodeSettles(outcome))
    /\ WF_vars(\E outcome \in {"added", "failed"} : ExportEmbedSettles(outcome))
    /\ WF_vars(\E outcome \in {"generated", "failed"} : ExportFinalizeSettles(outcome))

SpecExportLive == SpecExport /\ ExportAwaitsSettle

----------------------------------------------------------------------------
\* Properties of the item collection.

\* C1: every item has metadata if and only if its status is SUCCESS.
MetadataIffSuccess ==
    \A i \in 1..Len(imageFiles) :
        (imageFiles[i].metadata # None) <=> (imageFiles[i].status = SUCCESS)

\* C2: every item has an error message if and only if its status is ERROR.
ErrorIffStatusError ==
    \A i \in 1..Len(imageFiles) :
        (imageFiles[i].error # None) <=> (imageFiles[i].status = ERROR)

\* C3: at most one call of the metadata analysis is in flight.
AtMostOneAnalysisInFlight == InFlight <= 1

\* The ids the running generateAll may touch: those captured as IDLE or ERROR.
EligibleIds(captured) ==
    {captured[i].id : i \in {j \in 1..Len(captured) : captured[j].status \in {IDLE, ERROR}}}

\* The items whose id is outside ids are the same before and after the step.
FrameOutside(ids) ==
    /\ Len(imageFiles') = Len(imageFiles)
    /\ \A i \in 1..Len(imageFiles) :
          imageFiles[i].id \notin ids => imageFiles'[i] = imageFiles[i]

\* C4: a generateAll run changes only items that were IDLE or ERROR when Generate
\* All was pressed: every step of the run (its start and each settlement with the
\* start of the next analysis) leaves all other items, those that were SUCCESS at
\* the call and those uploaded later, exactly as they are, edits included.
GenerateAllTouchesOnlyEligible ==
    [][ /\ handleGenerateAllMetadata => FrameOutside(EligibleIds(Captured(imageFiles)))
        /\ (\E response \in Responses : GenerateAllSettles(response))
             => FrameOutside(EligibleIds(genAllFiles)) ]_vars

\* C4 witness: a run is past an item it captured as SUCCESS, and that item is
\* still SUCCESS and still carries the title the user typed.
SuccessItemKeptThroughRun ==
    /\ genAllPos # 0
    /\ \E k \in 1..Len(genAllFiles) :
          /\ k < genAllPos
          /\ genAllFiles[k].status = SUCCESS
          /\ HasId(imageFiles, genAllFiles[k].id)
          /\ FileOf(imageFiles, genAllFiles[k].id).status = SUCCESS
          /\ FileOf(imageFiles, genAllFiles[k].id).metadata[1].title = <<"x">>

\* j is the first index after the awaited one captured as IDLE or ERROR.
IsNextEligible(j) ==
    /\ j \in (genAllPos + 1)..Len(genAllFiles)
    /\ genAllFiles[j].status \in {IDLE, ERROR}
    /\ \A k \in (genAllPos + 1)..(j - 1) : genAllFiles[k].status \notin {IDLE, ERROR}

\* C5: when the analysis awaited by generateAll fails, the item (if it is still in
\* the collection) gets status ERROR and a message and keeps its other fields; the
\* loop moves on to the next captured item that was IDLE or ERROR and starts its
\* analysis, or ends the run if there is none; every other item is unchanged.
FailureContainedToItem ==
    [][ \A response \in Responses :
          (~analyzeImageAndSuggestMetadata(response).ok /\ GenerateAllSettles(response))
          => LET failed == genAllFiles[genAllPos].id
                 rest == {j \in 1..Len(genAllFiles) : IsNextEligible(j)}
                 started == {genAllFiles[j].id : j \in rest}
             IN  /\ Len(imageFiles') = Len(imageFiles)
                 /\ \A i \in 1..Len(imageFiles) :
                       LET f == imageFiles[i]
                           g == imageFiles'[i]
                       IN  /\ f.id = failed =>
                                 /\ g.status = ERROR
                                 /\ g.error # None
                                 /\ g = [f EXCEPT !.status = ERROR, !.error = g.error]
                           /\ f.id \in started =>
                                 g = [f EXCEPT !.status = LOADING, !.error = None]
                           /\ f.id \notin started \cup {failed} => g = f
                 /\ rest # {} => genAllPos' \in rest /\ isProcessing'
                 /\ rest = {} => genAllPos' = 0 /\ ~isProcessing' ]_vars

\* C5 witness: the run is awaiting its second item while the first one, captured
\* as IDLE, shows the failure of its analysis.
RunWentOnAfterFailure ==
    /\ genAllPos = 2
    /\ genAllFiles[1].status = IDLE
    /\ HasId(imageFiles, genAllFiles[1].id)
    /\ FileOf(imageFiles, genAllFiles[1].id).status = ERROR
    /\ FileOf(imageFiles, genAllFiles[1].id).error # None
    /\ HasId(imageFiles, genAllFiles[2].id)
    /\ FileOf(imageFiles, genAllFiles[2].id).status = LOADING

\* The status changes of the per-item state machine.
AllowedTransitions ==
    { <<IDLE, LOADING>>, <<ERROR, LOADING>>, <<SUCCESS, LOADING>>,
      <<LOADING, SUCCESS>>, <<LOADING, ERROR>> }

\* C6: whenever the status of an item changes, the change is one of idle to
\* loading, error to loading, success to loading, loading to success and loading
\* to error.
StatusFollowsStateMachine ==
    [][ \A i \in 1..Len(imageFiles), j \in 1..Len(imageFiles') :
          (imageFiles[i].id = imageFiles'[j].id
             /\ imageFiles[i].status # imageFiles'[j].status)
          => <<imageFiles[i].status, imageFiles'[j].status>> \in AllowedTransitions ]_vars

\* C7: deleting an item removes the one item with that id; the items before and
\* after it stay, in order, with all their fields.
DeleteRemovesExactlyThatItem ==
    [][ \A id \in Ids :
          handleDeleteFile(id)
          => \E k \in 1..Len(imageFiles) :
                /\ imageFiles[k].id = id
                /\ imageFiles' = SubSeq(imageFiles, 1, k - 1)
                                    \o SubSeq(imageFiles, k + 1, Len(imageFiles)) ]_vars

\* C7 witness: of the two items a running generateAll captured, the first has
\* been deleted and the second is still in the collection.
DeletedOneOfTwo ==
    /\ genAllPos # 0
    /\ Len(genAllFiles) = 2
    /\ Len(imageFiles) = 1
    /\ imageFiles[1].id = genAllFiles[2].id

----------------------------------------------------------------------------
\* Properties of the bulk tag merge.

\* Apply Tags can be pressed.
ApplyEnabled == hasSuccessfulFiles /\ Trim(customTagsInput) # <<>>

\* The position of the first occurrence of x in xs.
FirstIndex(xs, x) == CHOOSE p \in 1..Len(xs) : xs[p] = x /\ \A q \in 1..(p - 1) : xs[q] # x

NoDuplicates(xs) == \A p, q \in 1..Len(xs) : xs[p] = xs[q] => p = q

\* merged holds every element of existing followed by added exactly once, in the
\* order of the first occurrences.
IsFirstSeenMerge(merged, existing, added) ==
    LET all == existing \o added
    IN  /\ NoDuplicates(merged)
        /\ Range(merged) = Range(all)
        /\ \A p, q \in 1..Len(merged) :
              p < q => FirstIndex(all, merged[p]) < FirstIndex(all, merged[q])

\* Pressing Apply Tags here gives every SUCCESS item the first-seen merge of its
\* tags and the parsed field.
ApplyMergesEverySuccessItem ==
    LET after == AppliedCustomTags(imageFiles, customTagsInput)
    IN  \A i \in 1..Len(imageFiles) :
          imageFiles[i].status = SUCCESS
          => /\ after[i].metadata # None
             /\ IsFirstSeenMerge(after[i].metadata[1].tags,
                                 imageFiles[i].metadata[1].tags,
                                 ParseTags(customTagsInput))

\* The example of the specification: "a, b" applied to ["b","c"] gives ["b","c","a"].
ApplyExample ==
    \A i \in 1..Len(imageFiles) :
      (/\ imageFiles[i].status = SUCCESS
       /\ imageFiles[i].metadata[1].tags = << <<"b">>, <<"c">> >>
       /\ customTagsInput = <<"a", ",", " ", "b">>)
      => AppliedCustomTags(imageFiles, customTagsInput)[i].metadata[1].tags
           = << <<"b">>, <<"c">>, <<"a">> >>

\* C8 as stated: in every state where Apply Tags can be pressed, pressing it sets
\* the tag list of every SUCCESS item to its existing tags followed by the parsed
\* new tags, duplicates removed, first-seen order kept.
BulkApplyAlwaysMerges ==
    ApplyEnabled => ApplyMergesEverySuccessItem /\ ApplyExample

\* C8 as amended: pressing Apply Tags with a field that parses to at least one tag
\* sets the tag list of every SUCCESS item to that merge; with a field that parses
\* to no tag (only commas and blanks) it changes no item.
BulkApplyMergesParsedTags ==
    ApplyEnabled =>
        IF ParseTags(customTagsInput) # <<>>
        THEN ApplyMergesEverySuccessItem /\ ApplyExample
        ELSE AppliedCustomTags(imageFiles, customTagsInput) = imageFiles

\* C8 witness: the tags were applied (the field is cleared) and the first item
\* carries the merge of the example.
ExampleMergeApplied ==
    /\ customTagsInput = <<>>
    /\ imageFiles[1].status = SUCCESS
    /\ imageFiles[1].metadata[1].tags = << <<"b">>, <<"c">>, <<"a">> >>

\* Every SUCCESS item of files carries each of its tags once.
SuccessTagsDistinct(files) ==
    \A i \in 1..Len(files) :
        files[i].status = SUCCESS => NoDuplicates(files[i].metadata[1].tags)

\* C9 as stated: pressing Apply Tags, typing the same text again and pressing once
\* more leaves every item as the first press left it, and after the first press no
\* SUCCESS item carries a tag twice.
BulkApplyIdempotentNoDuplicates ==
    ApplyEnabled =>
        LET once == AppliedCustomTags(imageFiles, customTagsInput)
            twice == AppliedCustomTags(once, customTagsInput)
        IN  twice = once /\ SuccessTagsDistinct(once)

\* C9 as amended: the second press leaves every item as the first press left it;
\* when the text parses to at least one tag, no SUCCESS item carries a tag twice
\* after the first press.
BulkApplyIdempotent ==
    ApplyEnabled =>
        LET once == AppliedCustomTags(imageFiles, customTagsInput)
            twice == AppliedCustomTags(once, customTagsInput)
        IN  /\ twice = once
            /\ ParseTags(customTagsInput) # <<>> => SuccessTagsDistinct(once)

\* C9 witness: the first press has happened (the field is cleared and the second
\* item carries "b" and "a" once each), and typing "b,a" and pressing again leaves
\* every item as it is.
MergedOnceAndStable ==
    /\ customTagsInput = <<>>
    /\ imageFiles[2].status = SUCCESS
    /\ imageFiles[2].metadata[1].tags = << <<"b">>, <<"a">> >>
    /\ AppliedCustomTags(imageFiles, <<"b", ",", "a">>) = imageFiles

\* C10: an Apply Tags step keeps the number and order of the items, leaves every
\* item that is not SUCCESS exactly as it is, metadata included, and changes
\* nothing but the tag list of the others.
BulkApplyFrame ==
    [][ handleApplyCustomTags
        => /\ Len(imageFiles') = Len(imageFiles)
           /\ \A i \in 1..Len(imageFiles) :
                 LET f == imageFiles[i]
                     g == imageFiles'[i]
                 IN  /\ f.status # SUCCESS => g = f
                     /\ f.status = SUCCESS =>
                           g = [f EXCEPT !.metadata =
                                   Some([f.metadata[1] EXCEPT !.tags = g.metadata[1].tags])] ]_vars

\* C10 witness: the tags were applied to the first item, and the second item, in
\* ERROR with the metadata of an earlier analysis, still has its two tags.
ErrorItemKeptItsTags ==
    /\ customTagsInput = <<>>
    /\ imageFiles[1].status = SUCCESS
    /\ <<"a">> \in Range(imageFiles[1].metadata[1].tags)
    /\ imageFiles[2].status = ERROR
    /\ imageFiles[2].metadata # None
    /\ imageFiles[2].metadata[1].tags = << <<"b">>, <<"c">> >>

----------------------------------------------------------------------------
\* Properties of the metadata request client.

\* The analysis of SpecClient has settled.
ClientSettled == pending[1] = 0

\* The analysis of SpecClient has settled with metadata.
ClientAccepted == ClientSettled /\ imageFiles[1].status = SUCCESS

\* C11: normalising a filename twice gives the same as normalising it once: the
\* filename an analysis delivers is left as it is by another normalisation.
NormalizeIdempotent ==
    ClientAccepted =>
        NormalizeFilename(imageFiles[1].metadata[1].filename)
            = imageFiles[1].metadata[1].filename

\* The service answered with upper case, whitespace and a character outside
\* [a-z0-9-], and the delivered filename differs from the answer.
NormalizedNameDelivered ==
    /\ ClientAccepted
    /\ clientResponse.filename = Some(<<"A", " ", "_", "b">>)
    /\ imageFiles[1].metadata[1].filename = <<"a", "-", "b">>

\* Every character of s is one of [a-z0-9-].
KebabOnly(s) == \A i \in 1..Len(s) : s[i] \in KebabChars

\* s has no two hyphens in a row.
NoHyphenRun(s) == \A i \in 1..Len(s) - 1 : ~(s[i] = "-" /\ s[i + 1] = "-")

\* c is one of [a-z0-9].
IsAlnum(c) == c \in KebabChars \ {"-"}

\* The letters and digits of s, in order.
Alnums(s) == SelectSeq(s, IsAlnum)

\* For a text with n letters and digits, the n + 1 places before, between and
\* after them: TRUE where the text has a character of seps.
RECURSIVE Gaps(_, _)
Gaps(s, seps) ==
    IF s = <<>> THEN <<FALSE>>
    ELSE LET rest == Gaps(Tail(s), seps)
         IN  IF Head(s) \in seps THEN <<TRUE>> \o Tail(rest)
             ELSE IF IsAlnum(Head(s)) THEN <<FALSE>> \o rest
             ELSE rest

\* out is the clean-up of raw: the letters and digits of raw in lower case, with
\* one hyphen wherever raw has whitespace or hyphens between them (or before the
\* first, or after the last), and nothing else.
IsCleanUpOf(out, raw) ==
    /\ KebabOnly(out)
    /\ NoHyphenRun(out)
    /\ Alnums(out) = Alnums(ToLowerCase(raw))
    /\ Gaps(out, {"-"}) = Gaps(ToLowerCase(raw), {"-"} \cup Whitespace)

\* C12: the filename an analysis delivers has only characters of [a-z0-9-] and
\* no two hyphens in a row, and it is the clean-up of the filename the service
\* returned: lower case, backticks and other characters dropped, every run of
\* whitespace and hyphens turned into one hyphen.
DeliveredFilenameIsKebab ==
    ClientAccepted =>
        IsCleanUpOf(imageFiles[1].metadata[1].filename, clientResponse.filename[1])

\* The long filename with backticks, upper case, whitespace run, hyphen run and
\* an underscore was delivered cleaned up.
LongNameDelivered ==
    /\ ClientAccepted
    /\ clientResponse.filename = Some(LongName)
    /\ imageFiles[1].metadata[1].filename = <<"a", "b", "-", "a", "-", "b">>

\* The parsed response has all four fields and its tags are an array of strings.
WellShaped(r) ==
    /\ r.filename # None
    /\ r.title # None
    /\ r.description # None
    /\ r.tags # None
    /\ \A i \in 1..Len(r.tags[1]) : r.tags[1][i] # NumberElement

\* C13: a parsed response is accepted exactly when it has the four fields
\* filename, title, description and tags with tags a sequence of strings; any
\* other parsed response is rejected.
RejectsExactlyIllShaped ==
    (ClientSettled /\ clientResponse.kind = "json") =>
        ((imageFiles[1].status = SUCCESS) <=> WellShaped(clientResponse))

\* The response is not JSON, or it is JSON without one of the four fields.
ParseOrShapeFailure(r) ==
    \/ r.kind = "malformed"
    \/ /\ r.kind = "json"
       /\ r.filename = None \/ r.title = None \/ r.description = None \/ r.tags = None

\* C14: a response that is not well-formed or lacks a required field leaves the
\* item in ERROR with the could-not-parse message, and the generic
\* could-not-analyze message appears only after a transport or service failure.
ShapeErrorsGetParseMessage ==
    ClientSettled =>
        /\ ParseOrShapeFailure(clientResponse) =>
              /\ imageFiles[1].status = ERROR
              /\ imageFiles[1].error = Some(ParseErrorMessage)
        /\ imageFiles[1].error = Some(AnalyzeErrorMessage) =>
              clientResponse.kind = "transport"

----------------------------------------------------------------------------
\* Properties of the export.

\* C15: the archive handed to the browser has one entry for every item that was
\* SUCCESS when the export was requested, less the items reported as failed: the
\* number of entries is the number of captured items minus the number of
\* reported failures, whatever the filenames and whatever happens to the items
\* during the export.
ArchiveHasOneEntryPerItem ==
    [][ExportFinalizeSettles("generated") =>
          Cardinality(downloaded'[1]) = Len(exportFiles) - Cardinality(exportErrors)]_vars

\* The loop has turned from the item in work to the next one, or to the
\* finalization after the last, without adding an entry.
SkippedToNext ==
    /\ exportPos' = PosAt(exportFiles, exportPos + 1)
    /\ exportPc' = PcAt(exportFiles, exportPos + 1)
    /\ zip' = zip
    /\ isZipping' = isZipping

\* C16: a failure of one item at the decode and re-encode step or at the embed
\* step is caught: the item gets no entry and the export goes on with the next
\* item, or with the finalization after the last.
ItemFailureIsSkipped ==
    [][(\/ ExportDecodeSettles("failed")
        \/ ExportDecodeSettles("embedThrows")
        \/ ExportEmbedSettles("failed")) => SkippedToNext]_vars

\* C17: when the finalization of the archive fails the user is alerted, nothing
\* is handed to the browser, the zipping flag is false again and the items are
\* as they were.
FinalizeFailureAborts ==
    [][ExportFinalizeSettles("failed") =>
          /\ ZipAlert \in alerts'
          /\ downloaded' = downloaded
          /\ isZipping' = FALSE
          /\ exportPc' = "idle"
          /\ imageFiles' = imageFiles]_vars

\* An export of an entry ended with the alert and without a download.
FinalizeFailedNothingOffered ==
    /\ ZipAlert \in alerts
    /\ downloaded = None
    /\ ~isZipping
    /\ exportPc = "idle"
    /\ hasSuccessfulFiles

\* C18: with the embedding or archiving library missing, a request for the
\* export alerts and does nothing else: the zipping flag is never set, nothing is
\* captured, decoded, archived or downloaded, and the items stay as they are.
LibraryCheckComesFirst ==
    [][(processAndDownloadAll /\ ~librariesLoaded) =>
          /\ LibraryAlert \in alerts'
          /\ isZipping' = FALSE
          /\ exportPc' = "idle"
          /\ exportFiles' = <<>>
          /\ zip' = {}
          /\ downloaded' = None
          /\ UNCHANGED sessionVars]_vars

\* The export was requested without the libraries and the user was alerted.
AlertedForMissingLibrary ==
    /\ ~librariesLoaded
    /\ LibraryAlert \in alerts
    /\ hasSuccessfulFiles
    /\ ~isZipping

----------------------------------------------------------------------------
\* Properties of the card inputs and of the preview URLs.

\* The tag is not empty, holds no comma and neither starts nor ends with
\* whitespace.
IsTrimmedTag(tag) ==
    /\ tag # <<>>
    /\ "," \notin Range(tag)
    /\ Head(tag) \notin Whitespace
    /\ tag[Len(tag)] \notin Whitespace

\* The value the edited field gets: the typed text, or for the tags input the
\* list parsed from it.
WrittenValue(input) ==
    IF input.name = "tags" THEN ParseTags(input.value) ELSE input.value

\* The step has written the input into its field of the metadata of the item
\* at place i, which had metadata, and into nothing else of that item.
OnlyFieldReplaced(i, input) ==
    /\ imageFiles[i].metadata # None
    /\ imageFiles'[i].metadata # None
    /\ imageFiles'[i].metadata[1][input.name] = WrittenValue(input)
    /\ \A name \in (AllEditNames \cup {"tags"}) \ {input.name} :
          imageFiles'[i].metadata[1][name] = imageFiles[i].metadata[1][name]
    /\ imageFiles'[i].id = imageFiles[i].id
    /\ imageFiles'[i].previewUrl = imageFiles[i].previewUrl
    /\ imageFiles'[i].status = imageFiles[i].status
    /\ imageFiles'[i].error = imageFiles[i].error

\* C19: an edit in a card replaces the edited field of that item's metadata by
\* the written value (for the tags the list of trimmed, non-empty entries of the
\* comma-separated text) and nothing else: the other fields, the status and the
\* error of the item and all other items stay, and the item has metadata.
EditReplacesOnlyTheField ==
    [][NextEdit =>
          /\ Len(imageFiles') = Len(imageFiles)
          /\ \A i \in 1..Len(imageFiles) :
                IF imageFiles[i].id = cardInput[1].id
                THEN OnlyFieldReplaced(i, cardInput[1])
                ELSE imageFiles'[i] = imageFiles[i]
          /\ cardInput[1].name = "tags" =>
                \A k \in 1..Len(ParseTags(cardInput[1].value)) :
                    IsTrimmedTag(ParseTags(cardInput[1].value)[k])]_vars

\* The tags of item 1 were typed as "a,,b" while item 2, analysed as well
\* and carrying an old error message, kept everything.
TagsEditedOthersKept ==
    /\ cardInput = Some([id |-> 1, name |-> "tags", value |-> <<"a", ",", ",", "b">>])
    /\ imageFiles[1].status = SUCCESS
    /\ imageFiles[1].metadata[1].tags = << <<"a">>, <<"b">> >>
    /\ imageFiles[1].metadata[1].title = <<"t">>
    /\ imageFiles[2].status = SUCCESS
    /\ imageFiles[2].error = Some(ParseErrorMessage)
    /\ imageFiles[2].metadata[1].tags = << <<"b">>, <<"c">> >>

\* The preview URLs of the items in the collection.
PreviewsInUse == {imageFiles[i].previewUrl : i \in 1..Len(imageFiles)}

\* C20: the preview URLs created and not yet released are exactly the previews
\* of the items in the collection, after any uploads, deletions and clearings.
PreviewsReleasedWithItems == objectUrls = PreviewsInUse

\* Two uploaded items are gone with their previews, deleted or cleared, and a
\* third one was uploaded afterwards.
OnlyThirdPreviewLeft ==
    /\ nextId = 3
    /\ Len(imageFiles) = 1
    /\ imageFiles[1].previewUrl = 3
    /\ objectUrls = {3}

----------------------------------------------------------------------------
\* Properties of upload, of the generateAll run and of removed items.

\* The number of files of the selection whose type is an image MIME type.
ImageCount(types) == Cardinality({k \in 1..Len(types) : IsImageType(types[k])})

\* No two items of files have the same id.
IdsDistinct(files) ==
    \A i, j \in 1..Len(files) : i # j => files[i].id # files[j].id

\* The ids of the items of files.
IdsOf(files) == {files[i].id : i \in 1..Len(files)}

\* C21: an upload appends one item for every selected file of an image type and
\* none for the others, each IDLE without metadata and error, behind the items
\* that are there, which it leaves alone; the ids of the items are pairwise
\* different, and no step changes the id of an item that stays.
UploadAppendsFreshItems ==
    [][ /\ \A selectedFiles \in FileSelections :
              handleFileSelect(selectedFiles) =>
                  /\ Len(imageFiles') = Len(imageFiles) + ImageCount(selectedFiles)
                  /\ SubSeq(imageFiles', 1, Len(imageFiles)) = imageFiles
                  /\ \A i \in (Len(imageFiles) + 1)..Len(imageFiles') :
                        /\ imageFiles'[i].status = IDLE
                        /\ imageFiles'[i].metadata = None
                        /\ imageFiles'[i].error = None
        /\ IdsDistinct(imageFiles')
        /\ IF Len(imageFiles') >= Len(imageFiles)
           THEN \A i \in 1..Len(imageFiles) : imageFiles'[i].id = imageFiles[i].id
           ELSE IdsOf(imageFiles') \subseteq IdsOf(imageFiles) ]_vars

\* After an earlier upload was cleared, two image files were uploaded: two
\* fresh items with new ids.
TwoFreshItemsUploaded ==
    /\ Len(imageFiles) = 2
    /\ imageFiles[1] = ImageFile(2, 2, None, IDLE, None)
    /\ imageFiles[2] = ImageFile(3, 3, None, IDLE, None)

\* j is the place of the first item behind place pos that was captured as IDLE
\* or ERROR.
FirstEligibleBehind(captured, pos, j) ==
    /\ j \in (pos + 1)..Len(captured)
    /\ captured[j].status \in {IDLE, ERROR}
    /\ \A k \in (pos + 1)..(j - 1) : captured[k].status \notin {IDLE, ERROR}

\* After the step the item with this id, if it is in the collection, has one of
\* the statuses.
StatusAfterIn(id, statuses) ==
    \A i \in 1..Len(imageFiles') :
        imageFiles'[i].id = id => imageFiles'[i].status \in statuses

\* C22: generateAll analyses the items that were IDLE or ERROR in the order of
\* the collection, one at a time: the run starts with the first of them, and only
\* the settlement of the analysis it awaits moves it on, to the next of them;
\* at that step the settled item already shows SUCCESS or ERROR while the run
\* is still going and the next item is LOADING.
RunAnalysesInOrder ==
    [][ genAllPos' # genAllPos =>
          IF genAllPos = 0
          THEN /\ handleGenerateAllMetadata
               /\ FirstEligibleBehind(Captured(imageFiles), 0, genAllPos')
               /\ StatusAfterIn(imageFiles[genAllPos'].id, {LOADING})
          ELSE /\ \E response \in Responses : GenerateAllSettles(response)
               /\ StatusAfterIn(genAllFiles[genAllPos].id, {SUCCESS, ERROR})
               /\ IF \E j \in 1..Len(genAllFiles) :
                         FirstEligibleBehind(genAllFiles, genAllPos, j)
                  THEN /\ FirstEligibleBehind(genAllFiles, genAllPos, genAllPos')
                       /\ StatusAfterIn(genAllFiles[genAllPos'].id, {LOADING})
                       /\ isProcessing'
                  ELSE genAllPos' = 0 /\ ~isProcessing' ]_vars

\* The run awaits its second item while the first, captured as IDLE, already
\* shows its metadata.
FirstResultVisibleDuringRun ==
    /\ isProcessing
    /\ genAllPos = 2
    /\ genAllFiles[1].status = IDLE
    /\ Len(imageFiles) = 2
    /\ imageFiles[1].status = SUCCESS
    /\ imageFiles[1].metadata # None
    /\ imageFiles[2].status = LOADING

\* The name is a non-empty text of [a-z0-9-] followed by .jpg
IsKebabJpgName(name) ==
    /\ Len(name) > 4
    /\ SubSeq(name, Len(name) - 3, Len(name)) = <<".", "j", "p", "g">>
    /\ KebabOnly(SubSeq(name, 1, Len(name) - 4))

\* C23: every entry of the archive, while it is built and when it is handed to
\* the browser, is named by a non-empty filename of [a-z0-9-] followed by .jpg,
\* also for an item whose filename was edited in its card.
ArchiveNamesAreKebab ==
    /\ \A entry \in zip : IsKebabJpgName(entry.name)
    /\ downloaded # None => \A entry \in downloaded[1] : IsKebabJpgName(entry.name)

\* After the step every item captured by the run as IDLE or ERROR that is in
\* the collection shows SUCCESS or ERROR.
CapturedItemsSettled ==
    \A i \in 1..Len(imageFiles') :
        imageFiles'[i].id \in EligibleIds(genAllFiles) =>
            imageFiles'[i].status \in {SUCCESS, ERROR}

\* A started generateAll run finishes.
RunEventuallyFinishes == isProcessing ~> ~isProcessing

\* C24: when every analysis settles, a started generateAll run finishes with
\* isProcessing false again, and in the step that ends it every item that was
\* IDLE or ERROR when it started and is still in the collection is SUCCESS or
\* ERROR, whatever is deleted, cleared or uploaded meanwhile.
RunFinishesWithItemsSettled ==
    /\ RunEventuallyFinishes
    /\ [][(isProcessing /\ ~isProcessing') => CapturedItemsSettled]_vars

\* C25: a started export always ends with the zipping flag false again, whether
\* the steps of an item and the finalization succeed or fail and whether an
\* item is deleted meanwhile.
ExportEventuallyEnds == isZipping ~> ~isZipping

\* The ids handed out so far whose item is not in the collection: the removed
\* items.
RemovedIds == (1..nextId) \ IdsOf(imageFiles)

\* C26: an item removed by its delete button or by Clear All does not come
\* back: no step brings an item with a removed id into the collection, the
\* settlement of a card's analysis of a removed item leaves the collection as it
\* is, and so does the settlement of the run's analysis of a removed item, apart
\* from the item the run starts next.
RemovedItemNeverReappears ==
    [][ /\ RemovedIds \cap IdsOf(imageFiles') = {}
        /\ \A id \in RemovedIds : pending'[id] < pending[id] => imageFiles' = imageFiles
        /\ (genAllPos # 0 /\ genAllPos' # genAllPos
                /\ genAllFiles[genAllPos].id \in RemovedIds) =>
              FrameOutside(IF genAllPos' = 0 THEN {} ELSE {genAllFiles[genAllPos'].id}) ]_vars

\* Both items captured by the run were cleared and a third was uploaded; the
\* run is at its second item, awaiting the analysis of an item that is gone.
RunOutlivesRemovedItems ==
    /\ genAllPos = 2
    /\ RemovedIds = {1, 2}
    /\ Len(imageFiles) = 1
    /\ imageFiles[1] = ImageFile(3, 3, None, IDLE, None)

====
